---- MODULE Spec2Model ----
(***************************************************************************)
(* Revu job orchestration: the single-flight scrape lock, the job status   *)
(* protocol, cooperative cancellation and the per-user daily rate limiter  *)
(* of backend/app/routes/fetch_review_job.py and backend/app/worker.py,    *)
(* over a Redis store and a Celery task queue.                             *)
(*                                                                         *)
(* Spec       the lock / status / cancel protocol (start-scrape from the   *)
(*            lock acquisition on, the worker, scrape-status,              *)
(*            cancel-scrape, scrape-lock-status, key expiry).              *)
(* SpecRate   the rate-limit gate of start-scrape on a UTC clock.          *)
(* SpecStatus scrape-status as a function of the store and queue contents. *)
(* SpecJob    the life of a single job.                                    *)
(* SpecStart  start-scrape from the gate to the owner key, with the limit  *)
(*            as configured and with store failures.                       *)
(* SpecCrash  the protocol after the worker of the lock-holding job died.  *)
(* SpecPaced  a single job whose worker keeps reporting progress.         *)
(* SpecSpin   a single job with the spinner thread of its fetch phase.     *)
(* SpecAuth   signup and profile update of routes/auth.py over the users   *)
(*            collection with its unique email index.                      *)
(***************************************************************************)
EXTENDS Integers, Sequences, FiniteSets, TLC

\* ------------------------------------------------------------------ bounds
\* Number of task ids the task queue hands out.
MaxTasks == 2
\* LOCK_TTL (3600 s) counted in clock ticks of the model.
LockTtlTicks == 2

Tasks == 1 .. MaxTasks

\* ---------------------------------------------------------------- values
\* Python None / a missing JSON key, and a present value.
Null == << >>
Some(v) == << v >>

\* Redis: a key with a TTL is 0 when absent, else its remaining ticks.
Absent == 0
\* lock owner key: the task id it records and its remaining ticks.
NoOwner == [task |-> 0, ttl |-> 0]

TerminalStates == {"SUCCESS", "FAILURE", "REVOKED"}

\* The per-task metadata key is absent.
NoMeta == [state |-> "absent", progress |-> Null, error |-> Null]
\* json.dumps({"state": ..., "progress": ..., "error": ...}) envelopes.
ProgressEnv(pct) == [state |-> "PROGRESS", progress |-> Some(pct), error |-> Null]
SuccessEnv == [state |-> "SUCCESS", progress |-> Some(100), error |-> Null]
RevokedEnv(pct) == [state |-> "REVOKED", progress |-> Some(pct), error |-> Some("cancelled by user")]
\* The worker's FAILURE envelope carries no progress key.
FailureEnv(msg) == [state |-> "FAILURE", progress |-> Null, error |-> Some(msg)]

\* The per-task result key: absent, the success payload, or the payload the
\* failure handlers write ({"count": 0, "reviews": [], "product": None, "error": msg}).
NoResult == [present |-> FALSE, count |-> 0, reviews |-> "none", product |-> Null]
OkResult == [present |-> TRUE, count |-> 1, reviews |-> "reviews", product |-> Some("product")]
ErrResult == [present |-> TRUE, count |-> 0, reviews |-> "empty", product |-> Null]

\* Celery's native (state, info) of a task id.
NativePending == [state |-> "PENDING", info |-> "none", progress |-> Null]
NativeProgress(pct) == [state |-> "PROGRESS", info |-> "dict", progress |-> Some(pct)]
NativeRevokedByWorker == [state |-> "REVOKED", info |-> "dict", progress |-> Null]
NativeRevokedByQueue == [state |-> "REVOKED", info |-> "exc", progress |-> Null]
NativeSuccess == [state |-> "SUCCESS", info |-> "payload", progress |-> Null]
NativeFailure == [state |-> "FAILURE", info |-> "exc", progress |-> Null]

\* The _update(pct) call sites of the job body on the main thread, in order:
\* the initial report, the post-fetch report, the last report of the
\* normalisation loop, the "finalize normalization" report and the report
\* before the final write.
Plan == << 10, 40, 85, 55, 98 >>

VARIABLES
    lockKey,      \* revu:scrape:lock        0 = absent, else remaining TTL
    ownerKey,     \* revu:scrape:lock:task   [task, ttl]
    meta,         \* revu:task:{id}:meta     per task
    result,       \* revu:task:{id}:result   per task
    cancelKey,    \* revu:task:{id}:cancel   per task, TRUE = present
    native,       \* Celery result backend   per task
    pc,           \* per task: position of the task in the queue / worker
    step,         \* per task: number of Plan reports done
    inflight,     \* start_scrape requests between SET NX and send_task
    sent,         \* task ids between send_task and the owner-key write
    nextTask,     \* next task id send_task hands out
    resp,         \* the response of the step just taken (NoResp for a non-API step)
    granted,      \* history: task most recently granted the lock by start-scrape
    grants,       \* history: SET NX successes since the lock key was last deleted or expired
    hit,          \* history: per task, _do_cancel has been entered
    cancelRun,    \* SpecJob history: cancel-scrape returned while the job body was running
    cancelTwice,  \* SpecJob history: a cancel-scrape request directly followed one for the same task
    streak,       \* SpecStatus history: consecutive scrape-status polls just taken (capped at 2)
    rateKey,      \* revu:rate:{user}:{day}  per user, the current day's key
    clock,        \* SpecRate: half-seconds since UTC midnight
    day,          \* SpecRate: UTC day number
    attempts,     \* SpecRate history: per user, gate attempts on the current day
    limit,        \* DAILY_SCRAPE_LIMIT as configured (environment variable)
    users,        \* SpecAuth: the users collection, per document id
    pendingAuth,  \* SpecAuth: signup / update_me requests between their check and their write
    idle,         \* SpecPaced history: ticks since the job's last progress callback (-1: none yet)
    spin,         \* SpecPaced, SpecSpin: cur of the spinner thread, the next percentage it reports
    spinPc        \* SpecSpin: the spinner thread is at its loop test or inside _update(cur)

vars == << lockKey, ownerKey, meta, result, cancelKey, native, pc, step, inflight,
           sent, nextTask, resp, granted, grants, hit, cancelRun, cancelTwice, streak,
           rateKey, clock, day, attempts, limit, users, pendingAuth, idle, spin, spinPc >>

cancelVars == << cancelRun, cancelTwice >>
authVars == << users, pendingAuth >>
paceVars == << idle, spin, spinPc >>
rateVars == << streak, rateKey, clock, day, attempts, limit, authVars, paceVars >>
storeVars == << meta, result, cancelKey, native >>
workerVars == << pc, step, hit >>

NoResp == [op |-> "none"]

\* ------------------------------------------------------- Redis primitives
\* For comparison: SET ... EX without NX overwrites the key and its TTL.
SetEx(cur, ttl) == ttl
\* For comparison: SET without NX always replies OK.
SetReplyPlain(cur) == TRUE

\* SET key value NX EX ttl: the key after the call.
SetNxEx(cur, ttl) == IF cur = Absent THEN ttl ELSE cur
\* SET NX's reply: truthy iff the key was created.
SetNxReply(cur) == cur = Absent
\* EXPIRE key ttl: no effect on a missing key.
Expire(cur, ttl) == IF cur = Absent THEN Absent ELSE ttl
ExpireOwner(cur, ttl) == IF cur.task = 0 THEN cur ELSE [cur EXCEPT !.ttl = ttl]

\* History of grants: a step that leaves the lock key absent ends the interval.
GrantsAfter(newLock) == IF newLock = Absent THEN 0 ELSE grants

\* ------------------------------------------------------------ start_scrape
\* start_scrape requests run concurrently and carry no identity of their own:
\* inflight counts the requests that won SET NX and have not called send_task
\* yet, sent holds the task ids submitted whose owner key is not written yet.
\* Task ids still to hand out to the requests in flight (bounds the model).
IdsLeft == nextTask + inflight <= MaxTasks

StartResp(code, job) == [op |-> "start", code |-> code, job |-> job]

\* redis_client.set(LOCK_KEY, "1", nx=True, ex=LOCK_TTL); 409 when not locked.
StartLock ==
    /\ IdsLeft
    /\ lockKey' = SetNxEx(lockKey, LockTtlTicks)
    /\ IF SetNxReply(lockKey)
       THEN /\ inflight' = inflight + 1
            /\ grants' = grants + 1
            /\ resp' = NoResp
       ELSE /\ inflight' = inflight
            /\ grants' = grants
            /\ resp' = StartResp(409, Null)
    /\ UNCHANGED << ownerKey, storeVars, workerVars, sent, nextTask, granted, cancelVars, rateVars >>

\* celery_app.send_task(...) succeeded: the queue assigns the task id.
StartSend ==
    /\ inflight > 0
    /\ nextTask <= MaxTasks
    /\ pc' = [pc EXCEPT ![nextTask] = "queued"]
    /\ inflight' = inflight - 1
    /\ sent' = sent \cup {nextTask}
    /\ granted' = nextTask
    /\ nextTask' = nextTask + 1
    /\ resp' = NoResp
    /\ UNCHANGED << lockKey, ownerKey, storeVars, step, hit, grants, cancelVars, rateVars >>

\* For comparison: the failure handler returns 500 without the rollback.
RollbackNone(cur) == cur
\* The import of the worker or send_task raised: roll the lock back, 500.
RollbackLock(cur) == Absent
RollbackOwner(cur) == NoOwner

StartSendFails ==
    /\ inflight > 0
    /\ lockKey' = RollbackLock(lockKey)
    /\ ownerKey' = RollbackOwner(ownerKey)
    /\ grants' = GrantsAfter(lockKey')
    /\ inflight' = inflight - 1
    /\ resp' = StartResp(500, Null)
    /\ UNCHANGED << storeVars, workerVars, sent, nextTask, granted, cancelVars, rateVars >>

\* redis_client.set(f"{LOCK_KEY}:task", task.id, ex=LOCK_TTL); return job_id.
StartOwner(t) ==
    /\ t \in sent
    /\ ownerKey' = [task |-> t, ttl |-> LockTtlTicks]
    /\ sent' = sent \ {t}
    /\ resp' = StartResp(200, Some(t))
    /\ UNCHANGED << lockKey, storeVars, workerVars, inflight, nextTask, granted, grants,
                    cancelVars, rateVars >>

\* ---------------------------------------------------------------- expiry
\* For comparison: the lock key was stored without a TTL and never expires.
TickKeyNoTtl(cur) == cur
\* One clock tick: the lock key and the owner key lose one tick of TTL and
\* disappear at 0.
TickKey(cur) == IF cur = Absent THEN Absent ELSE cur - 1
TickOwner(cur) == IF cur.ttl <= 1 THEN NoOwner ELSE [cur EXCEPT !.ttl = cur.ttl - 1]

Tick ==
    /\ lockKey # Absent \/ ownerKey # NoOwner
    /\ lockKey' = TickKey(lockKey)
    /\ ownerKey' = TickOwner(ownerKey)
    /\ grants' = GrantsAfter(lockKey')
    /\ resp' = NoResp
    /\ UNCHANGED << storeVars, workerVars, inflight, sent, nextTask, granted, cancelVars,
                    streak, rateKey, clock, day, attempts, limit, authVars, spin, spinPc >>

\* ------------------------------------------------------------------ worker
\* "Release the lock only if it still belongs to this task": the owner read.
OwnerIs(t) == ownerKey.task = t

\* run_scraper_task entry: "if not redis_client.exists(LOCK_KEY): set it";
\* then record this task id under the owner key with a fresh TTL.
ReinforceLock(cur) == IF cur = Absent THEN LockTtlTicks ELSE cur
ReinforceOwner(t, cur) == [task |-> t, ttl |-> LockTtlTicks]

WorkerStart(t) ==
    /\ pc[t] = "queued"
    /\ lockKey' = ReinforceLock(lockKey)
    /\ ownerKey' = ReinforceOwner(t, ownerKey)
    /\ pc' = [pc EXCEPT ![t] = "run"]
    /\ resp' = NoResp
    /\ UNCHANGED << storeVars, step, hit, inflight, sent, nextTask, granted, grants, cancelVars, rateVars >>

\* A task revoked while still queued is discarded by the worker that
\* receives it; Celery records REVOKED for it.
WorkerDiscard(t) ==
    /\ pc[t] = "revoked"
    /\ pc' = [pc EXCEPT ![t] = "done"]
    /\ native' = [native EXCEPT ![t] = NativeRevokedByQueue]
    /\ resp' = NoResp
    /\ UNCHANGED << lockKey, ownerKey, meta, result, cancelKey, step, hit, inflight, sent,
                    nextTask, granted, grants, cancelVars, rateVars >>

\* _do_cancel(pct) up to its raise: REVOKED envelope, owner-checked release.
\* The raise is caught by the "except Exception: pass" around the cancel check
\* in _update, so _update goes on to its own writes.
DoCancelLock(t, cur) == IF OwnerIs(t) THEN Absent ELSE cur
DoCancelOwner(t, cur) == IF OwnerIs(t) THEN NoOwner ELSE cur

\* For comparison: _update without its two EXPIRE commands.
UpdateLockNoRefresh(t, cur) == IF cancelKey[t] THEN DoCancelLock(t, cur) ELSE cur
\* What _update(pct) leaves in the metadata key.
UpdateMeta(t, pct) == ProgressEnv(pct)
\* The lock and owner keys after _update: the release of _do_cancel on a
\* cancel hit, then EXPIRE of both keys.
UpdateLock(t, cur) ==
    Expire(IF cancelKey[t] THEN DoCancelLock(t, cur) ELSE cur, LockTtlTicks)
UpdateOwner(t, cur) ==
    ExpireOwner(IF cancelKey[t] THEN DoCancelOwner(t, cur) ELSE cur, LockTtlTicks)

\* For comparison: a callback that deletes the cancel flag it has read.
UpdateCancelKeyConsumed(t, cur) == FALSE
\* The cancel flag after _update: redis_client.get reads it, nothing deletes it.
UpdateCancelKey(t, cur) == cur

\* _update(pct) at the next call site of the job body.
WorkerUpdate(t) ==
    /\ pc[t] = "run"
    /\ step[t] < Len(Plan)
    /\ LET pct == Plan[step[t] + 1]
       IN  /\ hit' = [hit EXCEPT ![t] = hit[t] \/ cancelKey[t]]
           /\ native' = [native EXCEPT ![t] = NativeProgress(pct)]
           /\ meta' = [meta EXCEPT ![t] = UpdateMeta(t, pct)]
           /\ lockKey' = UpdateLock(t, lockKey)
           /\ ownerKey' = UpdateOwner(t, ownerKey)
           /\ cancelKey' = [cancelKey EXCEPT ![t] = UpdateCancelKey(t, cancelKey[t])]
    /\ grants' = GrantsAfter(lockKey')
    /\ step' = [step EXCEPT ![t] = step[t] + 1]
    /\ resp' = NoResp
    /\ UNCHANGED << result, pc, inflight, sent, nextTask, granted, cancelVars,
                    streak, rateKey, clock, day, attempts, limit, authVars, spin, spinPc >>

\* _spinner_thread: while the fetch blocks the main thread, between the
\* reports of 10 and 40, it calls _update(cur) and advances cur by 3 until
\* cur reaches 36 or stop_spinner is set.
SpinnerStep == 3
SpinnerEnd == 36

SpinnerUpdate(t) ==
    /\ pc[t] = "run"
    /\ step[t] = 1
    /\ spin < SpinnerEnd
    /\ hit' = [hit EXCEPT ![t] = hit[t] \/ cancelKey[t]]
    /\ native' = [native EXCEPT ![t] = NativeProgress(spin)]
    /\ meta' = [meta EXCEPT ![t] = UpdateMeta(t, spin)]
    /\ lockKey' = UpdateLock(t, lockKey)
    /\ ownerKey' = UpdateOwner(t, ownerKey)
    /\ cancelKey' = [cancelKey EXCEPT ![t] = UpdateCancelKey(t, cancelKey[t])]
    /\ grants' = GrantsAfter(lockKey')
    /\ spin' = spin + SpinnerStep
    /\ resp' = NoResp
    /\ UNCHANGED << result, pc, step, inflight, sent, nextTask, granted, cancelVars,
                    streak, rateKey, clock, day, attempts, limit, authVars, spinPc >>

\* The same thread, with the loop test and the call it guards as two steps.
\* stop_spinner is set in the "finally" of the fetch, that is once the job
\* body has left the fetch (step 1 of Plan), by returning or by raising;
\* th.join(timeout=1) then waits at most a second for the thread.
StopSpinnerSet(t) == ~(pc[t] = "run" /\ step[t] = 1)

\* "while not stop_spinner.is_set() and cur < 36" passes: _update(cur) is called.
SpinnerEnter(t) ==
    /\ spinPc = "loop"
    /\ pc[t] = "run" /\ step[t] >= 1
    /\ ~StopSpinnerSet(t)
    /\ spin < SpinnerEnd
    /\ spinPc' = "update"
    /\ resp' = NoResp
    /\ UNCHANGED << lockKey, ownerKey, storeVars, workerVars, inflight, sent, nextTask,
                    granted, grants, cancelVars, streak, rateKey, clock, day, attempts,
                    limit, authVars, idle, spin >>

\* _update(cur) of the spinner does its reads and writes; then sleep, cur += 3.
SpinnerWrite(t) ==
    /\ spinPc = "update"
    /\ hit' = [hit EXCEPT ![t] = hit[t] \/ cancelKey[t]]
    /\ native' = [native EXCEPT ![t] = NativeProgress(spin)]
    /\ meta' = [meta EXCEPT ![t] = UpdateMeta(t, spin)]
    /\ lockKey' = UpdateLock(t, lockKey)
    /\ ownerKey' = UpdateOwner(t, ownerKey)
    /\ cancelKey' = [cancelKey EXCEPT ![t] = UpdateCancelKey(t, cancelKey[t])]
    /\ grants' = GrantsAfter(lockKey')
    /\ spin' = spin + SpinnerStep
    /\ spinPc' = "loop"
    /\ resp' = NoResp
    /\ UNCHANGED << result, pc, step, inflight, sent, nextTask, granted, cancelVars,
                    streak, rateKey, clock, day, attempts, limit, authVars, idle >>

\* The job body raises: no ASIN in the URL (before any report), the fetch
\* raises (after the first report), or no reviews were scraped (after the
\* "finalize normalization" report).  The handler writes the FAILURE
\* envelope and the error payload, then goes to its owner-checked release.
FailPoints == {0, 1, 4}

WorkerFail(t) ==
    /\ pc[t] = "run"
    /\ step[t] \in FailPoints
    /\ meta' = [meta EXCEPT ![t] = FailureEnv("job failed")]
    /\ result' = [result EXCEPT ![t] = ErrResult]
    /\ pc' = [pc EXCEPT ![t] = "relF"]
    /\ resp' = NoResp
    /\ UNCHANGED << lockKey, ownerKey, cancelKey, native, step, hit, inflight, sent, nextTask,
                    granted, grants, cancelVars, rateVars >>

\* For comparison: a final write that starts with the SUCCESS envelope and
\* leaves the payload out.
WorkerWriteEnvelopeFirst(t) ==
    /\ pc[t] = "run"
    /\ step[t] = Len(Plan)
    /\ meta' = [meta EXCEPT ![t] = SuccessEnv]
    /\ pc' = [pc EXCEPT ![t] = "wmeta"]
    /\ resp' = NoResp
    /\ UNCHANGED << lockKey, ownerKey, result, cancelKey, native, step, hit, inflight, sent,
                    nextTask, granted, grants, cancelVars, rateVars >>

\* Final write, first half: the result payload.
WorkerWriteResult(t) ==
    /\ pc[t] = "run"
    /\ step[t] = Len(Plan)
    /\ result' = [result EXCEPT ![t] = OkResult]
    /\ pc' = [pc EXCEPT ![t] = "wmeta"]
    /\ resp' = NoResp
    /\ UNCHANGED << lockKey, ownerKey, meta, cancelKey, native, step, hit, inflight, sent,
                    nextTask, granted, grants, cancelVars, rateVars >>

\* Final write, second half: the SUCCESS envelope.
FinalMeta(t) == SuccessEnv

WorkerWriteMeta(t) ==
    /\ pc[t] = "wmeta"
    /\ meta' = [meta EXCEPT ![t] = FinalMeta(t)]
    /\ pc' = [pc EXCEPT ![t] = "relS"]
    /\ resp' = NoResp
    /\ UNCHANGED << lockKey, ownerKey, result, cancelKey, native, step, hit, inflight, sent,
                    nextTask, granted, grants, cancelVars, rateVars >>

\* What Celery records when the task function returns or raises.
ExitNative(p) == IF p \in {"relS", "delS"} THEN NativeSuccess ELSE NativeFailure

\* owner = redis_client.get(LOCK_TASK_KEY); if it is another task's, the task
\* function returns (relS) or re-raises (relF) without deleting.
WorkerReadOwner(t) ==
    /\ pc[t] \in {"relS", "relF"}
    /\ IF OwnerIs(t)
       THEN /\ pc' = [pc EXCEPT ![t] = IF pc[t] = "relS" THEN "delS" ELSE "delF"]
            /\ native' = native
       ELSE /\ pc' = [pc EXCEPT ![t] = "done"]
            /\ native' = [native EXCEPT ![t] = ExitNative(pc[t])]
    /\ resp' = NoResp
    /\ UNCHANGED << lockKey, ownerKey, meta, result, cancelKey, step, hit, inflight, sent,
                    nextTask, granted, grants, cancelVars, rateVars >>

\* redis_client.delete(LOCK_KEY); redis_client.delete(LOCK_TASK_KEY); exit.
WorkerDelete(t) ==
    /\ pc[t] \in {"delS", "delF"}
    /\ lockKey' = Absent
    /\ ownerKey' = NoOwner
    /\ grants' = GrantsAfter(Absent)
    /\ pc' = [pc EXCEPT ![t] = "done"]
    /\ native' = [native EXCEPT ![t] = ExitNative(pc[t])]
    /\ resp' = NoResp
    /\ UNCHANGED << meta, result, cancelKey, step, hit, inflight, sent, nextTask, granted, cancelVars, rateVars >>

\* A caller can name a job id only once start_scrape has returned it.
Known(t) == pc[t] # "none" /\ t \notin sent

\* ------------------------------------------------------------ scrape_status
\* dict.get(key, default) on a key that may be missing.
GetOr(field, default) == IF field = Null THEN default ELSE field[1]

StatusResp(t, state, progress, res, count, product, error) ==
    [op |-> "status", job |-> t, code |-> 200, state |-> state, progress |-> progress,
     result |-> res, count |-> count, product |-> product, error |-> error]

\* For comparison: a SUCCESS envelope without its result key is reported as an error.
MetaResponseStrict(t, m, r) ==
    IF m.state = "SUCCESS" /\ ~r.present
    THEN [StatusResp(t, "FAILURE", 0, Null, Null, Null, Some("result missing")) EXCEPT !.code = 500]
    ELSE StatusResp(t, m.state, GetOr(m.progress, 0),
                    IF m.state = "SUCCESS" THEN Some(r.reviews) ELSE Null,
                    IF m.state = "SUCCESS" THEN Some(r.count) ELSE Null,
                    IF m.state = "SUCCESS" THEN r.product ELSE Null,
                    m.error)

\* For comparison: the payload of the result key is returned whatever the
\* state of the envelope.
MetaResponseWithPayload(t, m, r) ==
    StatusResp(t, m.state, IF m.state = "SUCCESS" THEN 100 ELSE GetOr(m.progress, 0),
               IF r.present THEN Some(r.reviews) ELSE Null,
               IF r.present THEN Some(r.count) ELSE Null,
               IF r.present THEN r.product ELSE Null,
               IF m.state \in {"FAILURE", "REVOKED"} THEN m.error ELSE Null)
\* The metadata path: the envelope m is present, r is the result key.
MetaResponse(t, m, r) ==
    CASE m.state = "SUCCESS" ->
           StatusResp(t, "SUCCESS", 100,
                      IF r.present THEN Some(r.reviews) ELSE Null,
                      IF r.present THEN Some(r.count) ELSE Null,
                      IF r.present THEN r.product ELSE Null,
                      Null)
      [] m.state = "PROGRESS" ->
           StatusResp(t, "PROGRESS", GetOr(m.progress, 0), Null, Null, Null, Null)
      [] OTHER ->
           StatusResp(t, m.state, GetOr(m.progress, 0), Null, Null, Null, m.error)

\* For comparison: the native state is passed through without normalisation.
FallbackPassThrough(t, n) ==
    StatusResp(t, n.state, IF n.info = "dict" THEN GetOr(n.progress, 0) ELSE 0,
               Null, Null, Null, Null)

\* The fallback path: Celery's native state n.state and info n.info
\* ("payload": the dict the task returned, "dict": an update_state meta dict,
\* "exc": an exception instance, "none": None).
FallbackResponse(t, n) ==
    CASE n.state = "SUCCESS" /\ n.info \in {"payload", "dict"} ->
           StatusResp(t, "SUCCESS", 100,
                      IF n.info = "payload" THEN Some(OkResult.reviews) ELSE Null,
                      IF n.info = "payload" THEN Some(OkResult.count) ELSE Null,
                      IF n.info = "payload" THEN OkResult.product ELSE Null,
                      Null)
      [] n.state = "FAILURE" ->
           StatusResp(t, "FAILURE",
                      IF n.info = "dict" THEN GetOr(n.progress, 0) ELSE 0,
                      Null, Null, Null,
                      IF n.info = "exc" THEN Some("job failed") ELSE Null)
      [] OTHER ->
           StatusResp(t, n.state,
                      IF n.info = "dict" THEN GetOr(n.progress, 0) ELSE 0,
                      Null, Null, Null, Null)

\* "if meta_raw:" picks the path.
StatusResponse(t, m, r, n) ==
    IF m # NoMeta THEN MetaResponse(t, m, r) ELSE FallbackResponse(t, n)

\* A terminal state was observed (either path): the lock keys are deleted.
StatusReleases(m, n) ==
    IF m # NoMeta THEN m.state \in TerminalStates ELSE n.state \in TerminalStates

\* For comparison: only the metadata path releases the lock.
StatusLockMetaOnly(t, cur) ==
    IF meta[t] # NoMeta /\ meta[t].state \in TerminalStates THEN Absent ELSE cur
StatusLock(t, cur) == IF StatusReleases(meta[t], native[t]) THEN Absent ELSE cur
StatusOwner(t, cur) == IF StatusReleases(meta[t], native[t]) THEN NoOwner ELSE cur

\* For comparison: the poll consumes the result key it has read.
StatusResultConsumed(t) == NoResult

\* For comparison: a poll that deletes the envelope once it has reported a
\* terminal state from it.
StatusMetaCleared(t) == IF meta[t].state \in TerminalStates THEN NoMeta ELSE meta[t]
\* The keys scrape_status leaves behind for the job it was asked about.
StatusMetaAfter(t) == meta[t]
StatusResultAfter(t) == result[t]

ScrapeStatus(t) ==
    /\ Known(t)
    /\ resp' = StatusResponse(t, meta[t], result[t], native[t])
    /\ lockKey' = StatusLock(t, lockKey)
    /\ ownerKey' = StatusOwner(t, ownerKey)
    /\ meta' = [meta EXCEPT ![t] = StatusMetaAfter(t)]
    /\ result' = [result EXCEPT ![t] = StatusResultAfter(t)]
    /\ grants' = GrantsAfter(lockKey')
    /\ UNCHANGED << cancelKey, native, workerVars, inflight, sent, nextTask, granted, cancelVars,
                    rateKey, clock, day, attempts, limit, authVars, paceVars >>

\* ------------------------------------------------------------ cancel_scrape
\* For comparison: the REVOKED envelope written with progress 0 whatever the
\* stored envelope says.
CancelMetaZero(t) == RevokedEnv(0)
\* For comparison: the stored progress is kept only when the stored envelope
\* is a PROGRESS one.
CancelMetaProgressOnly(t) ==
    RevokedEnv(IF meta[t].state = "PROGRESS" THEN GetOr(meta[t].progress, 0) ELSE 0)
\* prog = int(prev.get("progress", 0)) of the envelope stored before, else 0.
CancelMeta(t) == RevokedEnv(GetOr(meta[t].progress, 0))
\* "Proactively release the single-job lock".
CancelLock(t, cur) == Absent
CancelOwner(t, cur) == NoOwner

\* res.revoke(terminate=False): best effort; it can only keep a task that is
\* still queued from starting.
CancelScrape(t, revoked) ==
    /\ Known(t)
    /\ cancelKey' = [cancelKey EXCEPT ![t] = TRUE]
    /\ pc' = [pc EXCEPT ![t] = IF pc[t] = "queued" /\ revoked THEN "revoked" ELSE pc[t]]
    /\ meta' = [meta EXCEPT ![t] = CancelMeta(t)]
    /\ lockKey' = CancelLock(t, lockKey)
    /\ ownerKey' = CancelOwner(t, ownerKey)
    /\ grants' = GrantsAfter(lockKey')
    /\ resp' = [op |-> "cancel", job |-> t, code |-> 200, cancel_requested |-> TRUE]
    /\ UNCHANGED << result, native, step, hit, inflight, sent, nextTask, granted, rateVars >>

\* -------------------------------------------------------- scrape_lock_status
LockStatusResponse ==
    [op |-> "lock", code |-> 200,
     locked |-> lockKey # Absent,
     owner_job_id |-> IF lockKey # Absent /\ ownerKey.task # 0 THEN Some(ownerKey.task) ELSE Null,
     ttl |-> IF lockKey # Absent THEN Some(lockKey) ELSE Null]

ScrapeLockStatus ==
    /\ resp' = LockStatusResponse
    /\ UNCHANGED << lockKey, ownerKey, storeVars, workerVars, inflight, sent, nextTask, granted,
                    grants, cancelVars, rateVars >>

\* ------------------------------------------------- retention / flag expiry
\* The cancel flag (1 h) and the metadata and result keys (24 h) of a task
\* outlast its run; once the run is over they are gone after their TTLs.
ExpireRetention(t) ==
    /\ pc[t] = "done"
    /\ meta[t] # NoMeta \/ result[t].present \/ cancelKey[t]
    /\ meta' = [meta EXCEPT ![t] = NoMeta]
    /\ result' = [result EXCEPT ![t] = NoResult]
    /\ cancelKey' = [cancelKey EXCEPT ![t] = FALSE]
    /\ resp' = NoResp
    /\ UNCHANGED << lockKey, ownerKey, native, workerVars, inflight, sent,
                    nextTask, granted, grants, cancelVars, rateVars >>

\* ------------------------------------------- start_scrape: rate-limit gate
\* Callers of start-scrape.
Users == {"u1", "u2"}
\* Length of the UTC day in seconds (86400, scaled down).
DaySeconds == 2
\* Days the clock runs through after the first.
MaxDays == 1
\* Gate attempts per user and day the model follows.
MaxAttempts == 5
\* DAILY_SCRAPE_LIMIT, the default per-user daily limit.
DAILY_SCRAPE_LIMIT == 3

\* The clock counts half-seconds, so that "now" can fall inside a second.
HalfTicksPerDay == 2 * DaySeconds

\* The counter key of (user, current day): absent, or a count with or
\* without an expiry instant (in half-seconds since midnight).
NoRateKey == [count |-> 0, hasExp |-> FALSE, exp |-> 0]
\* Redis drops a key once its expiry instant is reached.
LiveKey(k, now) == IF k.count > 0 /\ (~k.hasExp \/ k.exp > now) THEN k ELSE NoRateKey

\* INCR: creates the key at 1 (without expiry) or adds one.
Incr(k) == [k EXCEPT !.count = k.count + 1]
\* int((tomorrow - now).total_seconds()): whole seconds until UTC midnight.
SecondsToMidnight(now) == (HalfTicksPerDay - now) \div 2
\* EXPIRE key ttl: a ttl <= 0 deletes the key.
ExpireIn(k, ttl, now) ==
    IF ttl <= 0 THEN NoRateKey ELSE [k EXCEPT !.hasExp = TRUE, !.exp = now + 2 * ttl]

\* For comparison: the expiry is set only on the INCR that creates the key.
GateKeyFirstOnly(k, now) ==
    LET inc == Incr(LiveKey(k, now))
    IN  IF inc.count = 1 THEN ExpireIn(inc, SecondsToMidnight(now), now) ELSE inc
\* The key after the gate: INCR, then EXPIRE when the count is 1 or TTL
\* reports no expiry.
GateKey(k, now) ==
    LET inc == Incr(LiveKey(k, now))
    IN  IF inc.count = 1 \/ ~inc.hasExp
        THEN ExpireIn(inc, SecondsToMidnight(now), now)
        ELSE inc
\* new_count > DAILY_SCRAPE_LIMIT raises 429.
GateRejects(k, now) == Incr(LiveKey(k, now)).count > DAILY_SCRAPE_LIMIT

\* Lines 44-78 of start_scrape for user u, with the limit enabled.
StartScrapeGate(u) ==
    /\ attempts[u] < MaxAttempts
    /\ rateKey' = [rateKey EXCEPT ![u] = GateKey(rateKey[u], clock)]
    /\ resp' = [op |-> "gate", user |-> u, passed |-> ~GateRejects(rateKey[u], clock)]
    /\ attempts' = [attempts EXCEPT ![u] = attempts[u] + 1]
    /\ UNCHANGED << lockKey, ownerKey, storeVars, workerVars, inflight, sent, nextTask,
                    granted, grants, cancelVars, streak, clock, day, limit, authVars, paceVars >>

\* Half a second passes; at midnight the day changes and with it the key
\* names (revu:rate:{user}:{day}).
ClockTick ==
    /\ ~(clock = HalfTicksPerDay - 1 /\ day = MaxDays)
    /\ IF clock = HalfTicksPerDay - 1
       THEN /\ clock' = 0
            /\ day' = day + 1
            /\ rateKey' = [u \in Users |-> NoRateKey]
            /\ attempts' = [u \in Users |-> 0]
       ELSE /\ clock' = clock + 1
            /\ UNCHANGED << day, rateKey, attempts >>
    /\ resp' = NoResp
    /\ UNCHANGED << lockKey, ownerKey, storeVars, workerVars, inflight, sent, nextTask,
                    granted, grants, cancelVars, streak, limit, authVars, paceVars >>

\* The value a read of user u's counter key of the current day returns
\* (0: the key does not exist).
RateCount(u) == LiveKey(rateKey[u], clock).count
\* ------------------------------------- start_scrape from gate to lock (40-82)
\* The Redis command of this request that raises, if any: the INCR, the TTL
\* read or the EXPIRE of the rate-limit gate, or the SET NX of the lock.
Faults == {"none", "incr", "ttl", "expire", "lock"}
\* Values of the DAILY_SCRAPE_LIMIT environment variable: disabled (negative
\* or zero) and the default.
Limits == {0 - 1, 0, DAILY_SCRAPE_LIMIT}

\* For comparison: the gate runs whatever the configured limit is.
GateEnabledAlways == TRUE
\* "if DAILY_SCRAPE_LIMIT and int(DAILY_SCRAPE_LIMIT) > 0".
GateEnabled == limit > 0

\* The commands the gate sends for the counter key k, in order.  A failed
\* INCR leaves the try block; a failed TTL read leaves ttl_remaining None.
GateCommands(k, now, f) ==
    IF ~GateEnabled THEN << >>
    ELSE IF f = "incr" THEN << "INCR" >>
    ELSE LET inc == Incr(LiveKey(k, now))
         IN  << "INCR", "TTL" >> \o
             (IF inc.count = 1 \/ (f # "ttl" /\ ~inc.hasExp) THEN << "EXPIRE" >> ELSE << >>)

\* The counter key after the gate when command f raises.
GateKeyUnder(k, now, f) ==
    IF ~GateEnabled \/ f = "incr" THEN k
    ELSE LET inc == Incr(LiveKey(k, now))
         IN  IF f = "expire" THEN inc
             ELSE IF f = "ttl"
                  THEN IF inc.count = 1 THEN ExpireIn(inc, SecondsToMidnight(now), now) ELSE inc
                  ELSE GateKey(k, now)

\* For comparison: a gate that fails closed when the INCR raises.
GateRejectsClosed(k, now, f) ==
    GateEnabled /\ (f = "incr" \/ Incr(LiveKey(k, now)).count > limit)

\* "if new_count > DAILY_SCRAPE_LIMIT: raise 429"; a failed INCR is caught by
\* "except Exception: pass" and the request goes on.
GateRejectsUnder(k, now, f) ==
    GateEnabled /\ f # "incr" /\ Incr(LiveKey(k, now)).count > limit

\* What lines 44-82 did for a request: the commands sent for the counter key
\* and for the lock key, the command that raised, and the response.  A
\* request that wins the lock is "admitted": it goes on to send_task and has
\* not answered yet.
StartStep(u, f, code, rateCmds, lockCmds) ==
    [op |-> "start", user |-> u, fault |-> f, code |-> code, job |-> Null,
     rateCmds |-> rateCmds, lockCmds |-> lockCmds]
Admitted(u, f, rateCmds, lockCmds) ==
    [op |-> "admitted", user |-> u, fault |-> f,
     rateCmds |-> rateCmds, lockCmds |-> lockCmds]
\* r is the outcome of lines 44-82 of a request.
FromGate(r) == r.op \in {"start", "admitted"} /\ "fault" \in DOMAIN r

\* For comparison: SET NX of the lock is sent before the rate-limit gate, and
\* a request the gate rejects returns 429 with the lock it took.
StartScrapeLockFirst(u, f) ==
    /\ attempts[u] < MaxAttempts
    /\ IdsLeft
    /\ attempts' = [attempts EXCEPT ![u] = attempts[u] + 1]
    /\ rateKey' = [rateKey EXCEPT ![u] = GateKeyUnder(rateKey[u], clock, f)]
    /\ LET cmds == GateCommands(rateKey[u], clock, f)
       IN  IF f = "lock"
           THEN /\ resp' = StartStep(u, f, 500, cmds, << "SET NX" >>)
                /\ UNCHANGED << lockKey, inflight, grants >>
           ELSE /\ lockKey' = SetNxEx(lockKey, LockTtlTicks)
                /\ grants' = IF SetNxReply(lockKey) THEN grants + 1 ELSE grants
                /\ IF GateRejectsUnder(rateKey[u], clock, f)
                   THEN /\ resp' = StartStep(u, f, 429, cmds, << "SET NX" >>)
                        /\ UNCHANGED inflight
                   ELSE IF SetNxReply(lockKey)
                   THEN /\ inflight' = inflight + 1
                        /\ resp' = Admitted(u, f, cmds, << "SET NX" >>)
                   ELSE /\ UNCHANGED inflight
                        /\ resp' = StartStep(u, f, 409, cmds, << "SET NX" >>)
    /\ UNCHANGED << ownerKey, storeVars, workerVars, sent, nextTask, granted, cancelVars,
                    streak, clock, day, limit, authVars, paceVars >>
\* Lines 44-82 of start_scrape for user u: the gate, then SET NX of the lock.
\* An exception of the SET NX is caught nowhere: the framework answers 500.
StartScrape(u, f) ==
    /\ attempts[u] < MaxAttempts
    /\ IdsLeft
    /\ attempts' = [attempts EXCEPT ![u] = attempts[u] + 1]
    /\ rateKey' = [rateKey EXCEPT ![u] = GateKeyUnder(rateKey[u], clock, f)]
    /\ LET cmds == GateCommands(rateKey[u], clock, f)
       IN  IF GateRejectsUnder(rateKey[u], clock, f)
           THEN /\ resp' = StartStep(u, f, 429, cmds, << >>)
                /\ UNCHANGED << lockKey, inflight, grants >>
           ELSE IF f = "lock"
           THEN /\ resp' = StartStep(u, f, 500, cmds, << "SET NX" >>)
                /\ UNCHANGED << lockKey, inflight, grants >>
           ELSE /\ lockKey' = SetNxEx(lockKey, LockTtlTicks)
                /\ IF SetNxReply(lockKey)
                   THEN /\ inflight' = inflight + 1
                        /\ grants' = grants + 1
                        /\ resp' = Admitted(u, f, cmds, << "SET NX" >>)
                   ELSE /\ UNCHANGED << inflight, grants >>
                        /\ resp' = StartStep(u, f, 409, cmds, << "SET NX" >>)
    /\ UNCHANGED << ownerKey, storeVars, workerVars, sent, nextTask, granted, cancelVars,
                    streak, clock, day, limit, authVars, paceVars >>

\* scrape_status when the metadata read raises: 503, nothing read or written.
ScrapeStatusUnreachable(t) ==
    /\ Known(t)
    /\ resp' = [op |-> "status", job |-> t, code |-> 503]
    /\ UNCHANGED << lockKey, ownerKey, storeVars, workerVars, inflight, sent, nextTask,
                    granted, grants, cancelVars, rateVars >>
\* ------------------------------------------------ accounts (routes/auth.py)
\* Document ids of the users collection the model follows.
MaxUsers == 2
UserIds == 1 .. MaxUsers
Emails == {"a@x", "b@x"}
Names == {"n1", "n2"}
\* An optional request field: None or a value.
Optional(S) == {Null} \cup {Some(v) : v \in S}

\* No document under this id.
NoUser == [present |-> FALSE, email |-> "none", name |-> Null, email_verified |-> TRUE]
\* The document signup inserts; _doc_to_public reads a missing
\* email_verified as True.
NewUser(e, nameOpt) == [present |-> TRUE, email |-> e, name |-> nameOpt, email_verified |-> TRUE]

\* No request of this user between its check and its write.
NoReq == [kind |-> "none"]

\* users.find_one({"email": e}).
EmailExists(e) == \E v \in UserIds : users[v].present /\ users[v].email = e
\* For comparison: the lookup of update_me finds nothing.
EmailTakenNever(u, e) == FALSE
\* users.find_one({"email": e, "_id": {"$ne": u}}).
EmailTaken(u, e) == \E v \in UserIds \ {u} : users[v].present /\ users[v].email = e

\* db.users.create_index("email", unique=True): a write that would give the
\* document of id u an email another document has raises DuplicateKeyError.
IndexRejects(u, e) == \E v \in UserIds \ {u} : users[v].present /\ users[v].email = e

\* The $set document update_me builds from the body and the stored document.
UpdatesOf(doc, nameOpt, emailOpt) ==
    [setName |-> nameOpt # Null /\ nameOpt # doc.name,
     name |-> nameOpt,
     setEmail |-> emailOpt # Null /\ emailOpt[1] # doc.email,
     email |-> emailOpt]
\* update_one({"_id": u}, {"$set": updates}).
ApplyUpdates(doc, up) ==
    [doc EXCEPT !.name = IF up.setName THEN up.name ELSE @,
                !.email = IF up.setEmail THEN up.email[1] ELSE @,
                !.email_verified = IF up.setEmail THEN FALSE ELSE @]

\* The outcome of a step of signup or update_me for user id u and request
\* body (name, email); "-check" outcomes are requests on their way to the write.
AuthResp(op, u, code, nameOpt, emailOpt) ==
    [op |-> op, user |-> u, code |-> code, name |-> nameOpt, email |-> emailOpt]

notAuth == << lockKey, ownerKey, storeVars, workerVars, inflight, sent, nextTask, granted,
              grants, cancelVars, streak, rateKey, clock, day, attempts, limit, paceVars >>

\* signup up to the insert: 400 when the email is registered.
SignupCheck(u, e, nameOpt) ==
    /\ ~users[u].present
    /\ pendingAuth[u] = NoReq
    /\ IF EmailExists(e)
       THEN /\ resp' = AuthResp("signup", u, 400, nameOpt, Some(e))
            /\ UNCHANGED pendingAuth
       ELSE /\ resp' = AuthResp("signup-check", u, 0, nameOpt, Some(e))
            /\ pendingAuth' = [pendingAuth EXCEPT ![u] = [kind |-> "signup", doc |-> NewUser(e, nameOpt)]]
    /\ UNCHANGED << users, notAuth >>

\* users.insert_one(doc) under the unique index on email: a duplicate raises
\* and signup answers 503.
SignupInsert(u) ==
    /\ pendingAuth[u].kind = "signup"
    /\ LET doc == pendingAuth[u].doc
       IN  IF IndexRejects(u, doc.email)
           THEN /\ resp' = AuthResp("signup", u, 503, doc.name, Some(doc.email))
                /\ UNCHANGED users
           ELSE /\ resp' = AuthResp("signup", u, 200, doc.name, Some(doc.email))
                /\ users' = [users EXCEPT ![u] = doc]
    /\ pendingAuth' = [pendingAuth EXCEPT ![u] = NoReq]
    /\ UNCHANGED notAuth

\* update_me up to the update_one: 400 when the new email belongs to another
\* user, the stored document when nothing changes.
UpdateCheck(u, nameOpt, emailOpt) ==
    /\ users[u].present
    /\ pendingAuth[u] = NoReq
    /\ nameOpt # Null \/ emailOpt # Null
    /\ LET up == UpdatesOf(users[u], nameOpt, emailOpt)
       IN  IF up.setEmail /\ EmailTaken(u, emailOpt[1])
           THEN /\ resp' = AuthResp("update_me", u, 400, nameOpt, emailOpt)
                /\ UNCHANGED pendingAuth
           ELSE IF ~up.setName /\ ~up.setEmail
           THEN /\ resp' = AuthResp("update_me", u, 200, nameOpt, emailOpt)
                /\ UNCHANGED pendingAuth
           ELSE /\ resp' = AuthResp("update_me-check", u, 0, nameOpt, emailOpt)
                /\ pendingAuth' = [pendingAuth EXCEPT ![u] = [kind |-> "update", up |-> up]]
    /\ UNCHANGED << users, notAuth >>

\* users.update_one(...) under the unique index on email: a duplicate raises
\* out of the handler (500) and the document is not changed.
UpdateWrite(u) ==
    /\ pendingAuth[u].kind = "update"
    /\ LET up == pendingAuth[u].up
       IN  IF up.setEmail /\ IndexRejects(u, up.email[1])
           THEN /\ resp' = AuthResp("update_me", u, 500, up.name, up.email)
                /\ UNCHANGED users
           ELSE /\ resp' = AuthResp("update_me", u, 200, up.name, up.email)
                /\ users' = [users EXCEPT ![u] = ApplyUpdates(users[u], up)]
    /\ pendingAuth' = [pendingAuth EXCEPT ![u] = NoReq]
    /\ UNCHANGED notAuth

\* The users collection is empty and has its unique index on email.
\* No callback yet; the spinner starts "from just above the initial 10%".
SpinnerFirst == 12
NoCallback == 0 - 1
PaceInit ==
    /\ idle = NoCallback
    /\ spin = SpinnerFirst
    /\ spinPc = "loop"

AuthInit ==
    /\ users = [u \in UserIds |-> NoUser]
    /\ pendingAuth = [u \in UserIds |-> NoReq]

NextAuth ==
    \/ \E u \in UserIds, e \in Emails, n \in Optional(Names) : SignupCheck(u, e, n)
    \/ \E u \in UserIds : SignupInsert(u)
    \/ \E u \in UserIds, n \in Optional(Names), e \in Optional(Emails) : UpdateCheck(u, n, e)
    \/ \E u \in UserIds : UpdateWrite(u)
\* ------------------------------------------------------------ specification
RateInit ==
    /\ streak = 0
    /\ rateKey = [u \in Users |-> NoRateKey]
    /\ clock = 0
    /\ day = 0
    /\ attempts = [u \in Users |-> 0]
    /\ limit = DAILY_SCRAPE_LIMIT
    /\ AuthInit
    /\ PaceInit

Init ==
    /\ lockKey = Absent
    /\ ownerKey = NoOwner
    /\ meta = [t \in Tasks |-> NoMeta]
    /\ result = [t \in Tasks |-> NoResult]
    /\ cancelKey = [t \in Tasks |-> FALSE]
    /\ native = [t \in Tasks |-> NativePending]
    /\ pc = [t \in Tasks |-> "none"]
    /\ step = [t \in Tasks |-> 0]
    /\ inflight = 0
    /\ sent = {}
    /\ nextTask = 1
    /\ resp = NoResp
    /\ granted = 0
    /\ grants = 0
    /\ hit = [t \in Tasks |-> FALSE]
    /\ cancelRun = [t \in Tasks |-> FALSE]
    /\ cancelTwice = [t \in Tasks |-> FALSE]
    /\ RateInit

Next ==
    \/ StartLock
    \/ StartSend
    \/ StartSendFails
    \/ \E t \in Tasks : StartOwner(t)
    \/ \E t \in Tasks : WorkerStart(t)
    \/ \E t \in Tasks : WorkerDiscard(t)
    \/ \E t \in Tasks : WorkerUpdate(t) /\ UNCHANGED idle
    \/ \E t \in Tasks : WorkerFail(t)
    \/ \E t \in Tasks : WorkerWriteResult(t)
    \/ \E t \in Tasks : WorkerWriteMeta(t)
    \/ \E t \in Tasks : WorkerReadOwner(t)
    \/ \E t \in Tasks : WorkerDelete(t)
    \/ \E t \in Tasks : ScrapeStatus(t) /\ UNCHANGED streak
    \/ \E t \in Tasks, revoked \in BOOLEAN : CancelScrape(t, revoked) /\ UNCHANGED cancelVars
    \/ ScrapeLockStatus
    \/ \E t \in Tasks : ExpireRetention(t)
    \/ Tick /\ UNCHANGED idle

Spec == Init /\ [][Next]_vars

\* ------------------------------------------------------- one job's life
\* The life of a single job (the first task id): submission, the worker,
\* polls, cancel requests, expiry.  cancelRun records whether a cancel
\* request returned while the job body was running.
Job == 1

CancelTracked(revoked) ==
    /\ CancelScrape(Job, revoked)
    /\ cancelRun' = [cancelRun EXCEPT ![Job] = cancelRun[Job] \/ pc[Job] = "run"]
    /\ cancelTwice' = [cancelTwice EXCEPT ![Job] =
                          cancelTwice[Job] \/ (resp.op = "cancel" /\ resp.job = Job)]

NextJob ==
    \/ nextTask + inflight <= Job /\ StartLock
    \/ nextTask = Job /\ StartSend
    \/ StartSendFails
    \/ StartOwner(Job)
    \/ WorkerStart(Job)
    \/ WorkerDiscard(Job)
    \/ WorkerUpdate(Job) /\ UNCHANGED idle
    \/ WorkerFail(Job)
    \/ WorkerWriteResult(Job)
    \/ WorkerWriteMeta(Job)
    \/ WorkerReadOwner(Job)
    \/ WorkerDelete(Job)
    \/ ScrapeStatus(Job) /\ UNCHANGED streak
    \/ \E revoked \in BOOLEAN : CancelTracked(revoked)
    \/ ScrapeLockStatus
    \/ ExpireRetention(Job)
    \/ Tick /\ UNCHANGED idle

SpecJob == Init /\ [][NextJob]_vars

\* ------------------------------------------------------------ rate limiter
NextRate ==
    \/ \E u \in Users : StartScrapeGate(u)
    \/ ClockTick

SpecRate == Init /\ [][NextRate]_vars

\* ------------------------------------------------- a job that keeps reporting
\* The life of a single job whose worker, from its first progress callback
\* that finds the lock held by the job until the terminal write, never lets
\* a whole lock TTL pass between two callbacks.  idle counts the ticks since
\* the last callback.
Reporting == idle # NoCallback /\ pc[Job] \in {"run", "wmeta"}

Callback(A) ==
    /\ A
    /\ idle' = IF idle # NoCallback \/ (lockKey # Absent /\ OwnerIs(Job) /\ ~cancelKey[Job])
             THEN 0 ELSE idle

PacedTick ==
    /\ Reporting => idle + 1 < LockTtlTicks
    /\ Tick
    /\ idle' = IF idle = NoCallback \/ idle = LockTtlTicks THEN idle ELSE idle + 1

NextPaced ==
    \/ nextTask + inflight <= Job /\ StartLock
    \/ nextTask = Job /\ StartSend
    \/ StartSendFails
    \/ StartOwner(Job)
    \/ WorkerStart(Job)
    \/ WorkerDiscard(Job)
    \/ Callback(WorkerUpdate(Job))
    \/ Callback(SpinnerUpdate(Job))
    \/ WorkerFail(Job)
    \/ WorkerWriteResult(Job)
    \/ WorkerWriteMeta(Job)
    \/ WorkerReadOwner(Job)
    \/ WorkerDelete(Job)
    \/ ScrapeStatus(Job) /\ UNCHANGED streak
    \/ \E revoked \in BOOLEAN : CancelScrape(Job, revoked) /\ UNCHANGED cancelVars
    \/ ScrapeLockStatus
    \/ ExpireRetention(Job)
    \/ PacedTick

SpecPaced == Init /\ [][NextPaced]_vars

\* ------------------------------------------------ a job and its spinner
\* The life of a single job with the spinner thread of its fetch phase
\* running beside the job body.
NextSpin ==
    \/ nextTask + inflight <= Job /\ StartLock
    \/ nextTask = Job /\ StartSend
    \/ StartSendFails
    \/ StartOwner(Job)
    \/ WorkerStart(Job)
    \/ WorkerDiscard(Job)
    \/ WorkerUpdate(Job) /\ UNCHANGED idle
    \/ SpinnerEnter(Job)
    \/ SpinnerWrite(Job)
    \/ WorkerFail(Job)
    \/ WorkerWriteResult(Job)
    \/ WorkerWriteMeta(Job)
    \/ WorkerReadOwner(Job)
    \/ WorkerDelete(Job)
    \/ ScrapeStatus(Job) /\ UNCHANGED streak
    \/ \E revoked \in BOOLEAN : CancelScrape(Job, revoked) /\ UNCHANGED cancelVars
    \/ ScrapeLockStatus
    \/ ExpireRetention(Job)
    \/ Tick /\ UNCHANGED idle

SpecSpin == Init /\ [][NextSpin]_vars

\* ---------------------------------------------------------------- accounts
SpecAuth == Init /\ [][NextAuth]_vars

\* ------------------------------------------------- start_scrape as a whole
\* start_scrape from the rate-limit gate to the owner-key write, with the
\* limit as configured and with store failures, under lock expiry and polls.
StartInit ==
    /\ lockKey = Absent
    /\ ownerKey = NoOwner
    /\ meta = [t \in Tasks |-> NoMeta]
    /\ result = [t \in Tasks |-> NoResult]
    /\ cancelKey = [t \in Tasks |-> FALSE]
    /\ native = [t \in Tasks |-> NativePending]
    /\ pc = [t \in Tasks |-> "none"]
    /\ step = [t \in Tasks |-> 0]
    /\ inflight = 0
    /\ sent = {}
    /\ nextTask = 1
    /\ resp = NoResp
    /\ granted = 0
    /\ grants = 0
    /\ hit = [t \in Tasks |-> FALSE]
    /\ cancelRun = [t \in Tasks |-> FALSE]
    /\ cancelTwice = [t \in Tasks |-> FALSE]
    /\ streak = 0
    /\ rateKey = [u \in Users |-> NoRateKey]
    /\ clock = 0
    /\ day = 0
    /\ attempts = [u \in Users |-> 0]
    /\ limit \in Limits
    /\ AuthInit
    /\ PaceInit

\* The caller whose requests are followed.
Caller == "u1"

NextStart ==
    \/ \E f \in Faults : StartScrape(Caller, f)
    \/ StartSend
    \/ StartSendFails
    \/ \E t \in Tasks : StartOwner(t)
    \/ \E t \in Tasks : ScrapeStatus(t) /\ UNCHANGED streak
    \/ \E t \in Tasks : ScrapeStatusUnreachable(t)
    \/ Tick /\ UNCHANGED idle
    \/ ClockTick

SpecStart == StartInit /\ [][NextStart]_vars
\* ------------------------------------------------------- a worker that dies
\* The worker process running task t stops (killed, host lost) anywhere in the
\* job body or in its release: it takes no further step and nothing it wrote
\* is undone.  The task was acknowledged when it was received, so the queue
\* does not deliver it again.
WorkerCrash(t) ==
    /\ pc[t] \in {"run", "wmeta", "relS", "relF", "delS", "delF"}
    /\ pc' = [pc EXCEPT ![t] = "crashed"]
    /\ resp' = NoResp
    /\ UNCHANGED << lockKey, ownerKey, storeVars, step, hit, inflight, sent, nextTask,
                    granted, grants, cancelVars, rateVars >>

\* The first job was granted the lock and its worker died during the job
\* body, after any number of progress reports, with the lock anywhere in its
\* TTL.
CrashInit ==
    /\ \E ttl \in 1 .. LockTtlTicks :
          /\ lockKey = ttl
          /\ ownerKey = [task |-> Job, ttl |-> ttl]
    /\ \E n \in 0 .. Len(Plan) :
          /\ step = [t \in Tasks |-> IF t = Job THEN n ELSE 0]
          /\ meta = [t \in Tasks |-> IF t = Job /\ n > 0 THEN ProgressEnv(Plan[n]) ELSE NoMeta]
          /\ native = [t \in Tasks |->
                          IF t = Job /\ n > 0 THEN NativeProgress(Plan[n]) ELSE NativePending]
    /\ result = [t \in Tasks |-> NoResult]
    /\ cancelKey = [t \in Tasks |-> FALSE]
    /\ pc = [t \in Tasks |-> IF t = Job THEN "crashed" ELSE "none"]
    /\ inflight = 0
    /\ sent = {}
    /\ nextTask = Job + 1
    /\ resp = NoResp
    /\ granted = Job
    /\ grants = 1
    /\ hit = [t \in Tasks |-> FALSE]
    /\ cancelRun = [t \in Tasks |-> FALSE]
    /\ cancelTwice = [t \in Tasks |-> FALSE]
    /\ RateInit

NextCrash ==
    \/ Next
    \/ \E t \in Tasks : WorkerCrash(t)

\* Time passes: a key with a TTL does not live forever.
SpecCrash == CrashInit /\ [][NextCrash]_vars /\ WF_vars(Tick /\ UNCHANGED idle)
\* --------------------------------------- scrape_status over store contents
\* scrape_status for one job id over the contents the store and the queue
\* can hold for it.
NativeUnknown == [state |-> "UNKNOWN", info |-> "none", progress |-> Null]

MetaValues ==
    {NoMeta, SuccessEnv, FailureEnv("job failed")}
       \cup {ProgressEnv(Plan[i]) : i \in 1 .. Len(Plan)}
       \cup {RevokedEnv(Plan[i]) : i \in 1 .. Len(Plan)}
       \cup {RevokedEnv(0), RevokedEnv(100)}

\* The payload is written only before a SUCCESS envelope, the error payload
\* only after a FAILURE envelope.
ResultValues(m) ==
    IF m.state = "SUCCESS" THEN {NoResult, OkResult}
    ELSE IF m.state = "FAILURE" THEN {NoResult, ErrResult}
    ELSE {NoResult, OkResult, ErrResult}

NativeValues ==
    {NativePending, NativeSuccess, NativeFailure, NativeRevokedByQueue,
     NativeRevokedByWorker, NativeUnknown}
       \cup {NativeProgress(Plan[i]) : i \in 1 .. Len(Plan)}

NativePc(n) ==
    IF n.state = "PENDING" THEN "queued"
    ELSE IF n.state \in {"SUCCESS", "FAILURE"} \/ n = NativeRevokedByQueue THEN "done"
    ELSE "run"

StatusInit ==
    /\ \E holder \in 0 .. MaxTasks :
          /\ lockKey = (IF holder = 0 THEN Absent ELSE LockTtlTicks)
          /\ ownerKey = (IF holder = 0 THEN NoOwner ELSE [task |-> holder, ttl |-> LockTtlTicks])
          /\ granted = holder
          /\ grants = (IF holder = 0 THEN 0 ELSE 1)
    /\ \E m \in MetaValues, n \in NativeValues :
          /\ meta = [t \in Tasks |-> IF t = Job THEN m ELSE NoMeta]
          /\ \E r \in ResultValues(m) :
                result = [t \in Tasks |-> IF t = Job THEN r ELSE NoResult]
          /\ native = [t \in Tasks |-> IF t = Job THEN n ELSE NativePending]
          /\ pc = [t \in Tasks |-> IF t = Job THEN NativePc(n) ELSE "none"]
    /\ cancelKey = [t \in Tasks |-> FALSE]
    /\ step = [t \in Tasks |-> 0]
    /\ inflight = 0
    /\ sent = {}
    /\ nextTask = Job + 1
    /\ resp = NoResp
    /\ hit = [t \in Tasks |-> FALSE]
    /\ cancelRun = [t \in Tasks |-> FALSE]
    /\ cancelTwice = [t \in Tasks |-> FALSE]
    /\ RateInit

\* A poll, counted in the streak of consecutive polls.
Poll ==
    /\ ScrapeStatus(Job)
    /\ streak' = IF streak < 2 THEN streak + 1 ELSE streak

\* The metadata key, or the result key, reaches the end of its 24 h TTL.
ExpireMetaKey ==
    /\ meta[Job] # NoMeta
    /\ meta' = [meta EXCEPT ![Job] = NoMeta]
    /\ resp' = NoResp
    /\ streak' = 0
    /\ UNCHANGED << lockKey, ownerKey, result, cancelKey, native, workerVars, inflight,
                    sent, nextTask, granted, grants, cancelVars, rateKey, clock, day, attempts,
                    limit, authVars, paceVars >>

ExpireResultKey ==
    /\ result[Job].present
    /\ result' = [result EXCEPT ![Job] = NoResult]
    /\ resp' = NoResp
    /\ streak' = 0
    /\ UNCHANGED << lockKey, ownerKey, meta, cancelKey, native, workerVars, inflight,
                    sent, nextTask, granted, grants, cancelVars, rateKey, clock, day, attempts,
                    limit, authVars, paceVars >>

NextStatus ==
    \/ Poll
    \/ ExpireMetaKey
    \/ ExpireResultKey

SpecStatus == StatusInit /\ [][NextStatus]_vars

\* ================================================================== claims
\* The step just taken was a finalizer acting for task a: a scrape-status
\* poll that observed a terminal state, or a cancel-scrape request.
FinalizerFor(a) ==
    /\ resp'.op \in {"status", "cancel"}
    /\ resp'.job = a
    /\ resp'.op = "status" => resp'.state \in TerminalStates

\* The lock is held and the owner key records task t.
LockHeldBy(t) == lockKey # Absent /\ ownerKey.task = t

\* C1: between two deletions or expiries of the lock key at most one
\* start-scrape request wins the lock; a request answered 409 leaves that
\* count as it was.
C1_MutualExclusion == grants <= 1

\* C1 witness: a request was rejected with 409 while another request's grant
\* was live.
C1_Witness == resp = StartResp(409, Null) /\ grants = 1 /\ lockKey # Absent

\* C2: a finalizer acting for task a never deletes the lock key while the
\* owner key records a different task.
C2_OwnerCheckedRelease ==
    [][\A a \in Tasks :
         (FinalizerFor(a) /\ lockKey # Absent /\ ownerKey.task \notin {0, a})
            => lockKey' # Absent]_vars

\* C3: once cancel-scrape has returned for a running job and the worker has
\* passed a checkpoint with the cancel flag set, a scrape-status poll for the
\* task answers REVOKED and the task does not hold the lock.
C3_CancelConvergence ==
    \A t \in Tasks :
        (cancelRun[t] /\ hit[t] /\ cancelKey[t])
           => /\ StatusResponse(t, meta[t], result[t], native[t]).state = "REVOKED"
              /\ ~LockHeldBy(t)

\* C4: a terminal state recorded in the metadata key is never replaced by a
\* different state while the key exists.
C4_TerminalStateStable ==
    [][\A t \in Tasks :
         (meta[t].state \in TerminalStates /\ meta'[t] # NoMeta)
            => meta'[t].state = meta[t].state]_vars

\* C7: a start-scrape request answered 409 submits no task and leaves the
\* lock key, its remaining TTL and the owner key as they were.
C7_RejectedStartFrame ==
    [][(resp'.op = "start" /\ resp'.code = 409)
          => /\ lockKey' = lockKey
             /\ ownerKey' = ownerKey
             /\ pc' = pc /\ nextTask' = nextTask /\ sent' = sent /\ inflight' = inflight]_vars

\* C7 witness: a request was answered 409 while the lock, already one tick
\* into its TTL, was held with an owner recorded.
C7_Witness ==
    /\ resp = StartResp(409, Null)
    /\ lockKey # Absent /\ lockKey < LockTtlTicks
    /\ ownerKey.task # 0

\* C8: scrape-lock-status pairs locked=true only with the task most recently
\* granted the lock, and reports null owner and ttl when the lock is absent.
C8_LockStatusOwner ==
    resp.op = "lock"
       => /\ (resp.locked /\ resp.owner_job_id # Null) => resp.owner_job_id = Some(granted)
          /\ ~resp.locked => (resp.owner_job_id = Null /\ resp.ttl = Null)

\* C5: two consecutive scrape-status polls of a job that reached SUCCESS give
\* the same response (state, result, count and the rest).
C5_IdempotentSuccessPoll ==
    [][(resp.op = "status" /\ resp.state = "SUCCESS"
          /\ resp'.op = "status" /\ resp'.job = resp.job)
         => resp' = resp]_vars

\* C5 witness: a second consecutive poll answered SUCCESS with a result.
C5_Witness == streak = 2 /\ resp.op = "status" /\ resp.state = "SUCCESS" /\ resp.result # Null

\* C6: with the daily limit N, a user's attempt passes the rate-limit gate
\* exactly when it is among the first N of that user on that UTC day (so the
\* first attempt of a new day passes again).
C6_RateLimitBoundary ==
    resp.op = "gate" => (resp.passed <=> attempts[resp.user] <= DAILY_SCRAPE_LIMIT)

\* C9: with the metadata key absent, scrape-status answers with the native
\* state: SUCCESS with progress 100, FAILURE with an error, any other state
\* passed through with the native progress (else 0) and no error; it always
\* answers with a job state.
C9_FallbackMapping ==
    (resp.op = "status" /\ meta[Job] = NoMeta)
       => LET n == native[Job]
          IN  /\ resp.code = 200
              /\ resp.state = n.state
              /\ n.state = "SUCCESS" => resp.progress = 100
              /\ n.state = "FAILURE" => resp.error # Null
              /\ n.state \notin {"SUCCESS", "FAILURE"}
                    => /\ resp.error = Null
                       /\ resp.progress = GetOr(n.progress, 0)

\* C9 witness: a fallback poll answered SUCCESS with progress 100.
C9_Witness ==
    /\ resp.op = "status" /\ meta[Job] = NoMeta
    /\ native[Job].state = "SUCCESS" /\ resp.progress = 100

\* C10: with a SUCCESS envelope and no result key, scrape-status answers
\* SUCCESS, progress 100, null result, count and product, and no error.
C10_SuccessWithoutResult ==
    (resp.op = "status" /\ meta[Job].state = "SUCCESS" /\ ~result[Job].present)
       => /\ resp.code = 200
          /\ resp.state = "SUCCESS" /\ resp.progress = 100
          /\ resp.result = Null /\ resp.count = Null /\ resp.product = Null
          /\ resp.error = Null

\* C10 witness: the result key expired under a SUCCESS envelope and the job
\* was polled.
C10_Witness ==
    /\ resp.op = "status" /\ meta[Job].state = "SUCCESS" /\ ~result[Job].present
    /\ resp.state = "SUCCESS"

\* C11: a scrape-status poll for the job that owns the lock which answers a
\* terminal state (metadata path or fallback) leaves the lock key and the
\* owner key absent, so that the SET NX of a following start-scrape succeeds.
C11_PollReleasesLock ==
    [][(/\ resp'.op = "status"
        /\ resp'.state \in TerminalStates
        /\ lockKey # Absent
        /\ ownerKey.task = resp'.job)
         => /\ lockKey' = Absent
            /\ ownerKey' = NoOwner
            /\ SetNxReply(lockKey')]_vars

\* C11 witness: the job held the lock, its metadata key was absent, and a
\* poll answered a terminal state from the native status; the lock is gone.
C11_Witness ==
    /\ resp.op = "status" /\ resp.job = Job /\ resp.state \in TerminalStates
    /\ meta[Job] = NoMeta
    /\ granted = Job
    /\ lockKey = Absent /\ ownerKey = NoOwner

\* C12: a start-scrape request whose task submission fails after it won the
\* lock is answered 500 and leaves the lock key and the owner key absent; it
\* submits no task.
C12_SubmissionRollback ==
    [][(resp'.op = "start" /\ resp'.code = 500)
          => /\ inflight > 0
             /\ lockKey' = Absent
             /\ ownerKey' = NoOwner
             /\ pc' = pc /\ nextTask' = nextTask]_vars

\* C12 witness: the only request so far won the lock, failed to submit and
\* was answered 500; no lock is left.
C12_Witness ==
    /\ resp = StartResp(500, Null)
    /\ nextTask = 1 /\ inflight = 0
    /\ lockKey = Absent /\ ownerKey = NoOwner

\* C13: with the limit enabled and the store reachable, every start-scrape
\* attempt leaves the user's daily counter one higher than it found it,
\* whether it is then answered 429, 409 or goes on; and within a UTC day the
\* counter never decreases.
C13_CounterCountsAttempts ==
    [][/\ (resp'.op = "gate" \/ (FromGate(resp') /\ resp'.fault = "none" /\ GateEnabled))
            => (LiveKey(rateKey'[resp'.user], clock').count = RateCount(resp'.user) + 1)
       /\ (day' = day)
            => (\A u \in Users : LiveKey(rateKey'[u], clock').count >= RateCount(u))]_vars

\* C14: with a configured limit <= 0 no start-scrape request is answered 429,
\* the gate sends no command for a counter key, and no counter key exists.
C14_DisabledLimit ==
    limit <= 0
       => /\ \A u \in Users : rateKey[u] = NoRateKey
          /\ FromGate(resp)
                => /\ resp.rateCmds = << >>
                   /\ ~(resp.op = "start" /\ resp.code = 429)

\* C14 witness: with the limit disabled a caller made more attempts than the
\* default limit allows and the last one came back from the lock attempt.
C14_Witness ==
    /\ limit <= 0
    /\ attempts[Caller] > DAILY_SCRAPE_LIMIT
    /\ FromGate(resp) /\ resp.lockCmds # << >>

\* The command named by the fault of outcome r was sent, so it did raise.
FaultHit(r) ==
    \/ r.fault \in {"incr", "ttl"} /\ r.rateCmds # << >>
    \/ r.fault = "expire" /\ Len(r.rateCmds) = 3

\* C15 as stated: a request during whose rate-limit check a store command
\* (INCR, TTL or EXPIRE) raised is not answered 429 and goes on to the lock.
C15_FailOpenAnyCommand ==
    [][(FromGate(resp') /\ FaultHit(resp'))
          => /\ ~(resp'.op = "start" /\ resp'.code = 429)
             /\ resp'.lockCmds # << >>]_vars

\* C15 amended: when the INCR raises, the request is not answered 429 and
\* goes on to the lock; when only the TTL read or the EXPIRE raises, the
\* request is answered 429 exactly when the incremented count exceeds the
\* limit, and goes on to the lock otherwise.
C15_FailOpenOnIncrement ==
    [][(FromGate(resp') /\ FaultHit(resp'))
          => LET rejected == resp'.op = "start" /\ resp'.code = 429
             IN  /\ resp'.fault = "incr" => ~rejected
                 /\ resp'.fault # "incr" => (rejected <=> RateCount(resp'.user) + 1 > limit)
                 /\ ~rejected <=> resp'.lockCmds # << >>]_vars

\* C15 witness: the INCR of a caller whose counter had reached the limit
\* raised, and the request went on to the lock attempt.
C15_Witness ==
    /\ FromGate(resp) /\ resp.fault = "incr" /\ resp.rateCmds = << "INCR" >>
    /\ RateCount(resp.user) >= limit
    /\ resp.lockCmds = << "SET NX" >>

\* C16: a start-scrape request answered 429 has sent no command for the lock
\* key or the owner key, leaves both keys as they were and submits no task.
C16_RejectedBeforeLock ==
    [][(FromGate(resp') /\ resp'.op = "start" /\ resp'.code = 429)
          => /\ resp'.lockCmds = << >>
             /\ lockKey' = lockKey
             /\ ownerKey' = ownerKey
             /\ pc' = pc /\ nextTask' = nextTask /\ sent' = sent /\ inflight' = inflight]_vars

\* C16 witness: a request was answered 429 while the lock was free, and the
\* lock is still free.
C16_Witness ==
    /\ FromGate(resp) /\ resp.op = "start" /\ resp.code = 429
    /\ lockKey = Absent /\ inflight = 0

\* C17: a start-scrape request whose SET NX of the lock raises submits no
\* task and is answered 503; a scrape-status request whose metadata read
\* raises is answered 503 and reports no job state.
C17_StoreUnreachable ==
    [][/\ (FromGate(resp') /\ resp'.fault = "lock" /\ resp'.lockCmds # << >>)
            => /\ resp'.op = "start" /\ resp'.code = 503
               /\ pc' = pc /\ nextTask' = nextTask /\ inflight' = inflight
       /\ (resp'.op = "status" /\ resp'.code # 200)
            => /\ resp'.code = 503
               /\ "state" \notin DOMAIN resp']_vars

\* C18: after the worker of the job holding the lock has died, the lock key
\* does not stay: it is absent once its TTL has run out, and the SET NX of a
\* start-scrape request then succeeds.
C18_CrashRecovery ==
    (pc[Job] = "crashed" /\ lockKey # Absent) ~> (lockKey = Absent /\ SetNxReply(lockKey))

\* C18 witness: the dead job was never cancelled and never reached a terminal
\* state, and a later start-scrape was granted the lock and submitted its job.
C18_Witness ==
    /\ pc[Job] = "crashed" /\ ~cancelKey[Job]
    /\ meta[Job].state \notin TerminalStates
    /\ granted = Job + 1 /\ grants = 1 /\ lockKey # Absent

\* C19: the progress values the worker writes in successive PROGRESS
\* envelopes of a task never go down and lie in 0..100.
C19_ProgressMonotone ==
    [][\A t \in Tasks :
         (meta[t].state = "PROGRESS" /\ meta'[t].state = "PROGRESS")
            => /\ meta'[t].progress[1] >= meta[t].progress[1]
               /\ meta'[t].progress[1] \in 0 .. 100]_vars

\* C20: a scrape-status response carries result, count or product only with
\* state SUCCESS, and an error only with state FAILURE or REVOKED.
C20_ResponseFields ==
    resp.op = "status"
       => /\ (resp.result # Null \/ resp.count # Null \/ resp.product # Null)
                => resp.state = "SUCCESS"
          /\ resp.error # Null => resp.state \in {"FAILURE", "REVOKED"}

\* C20 witness: the job failed, its result key holds the error payload, and
\* the poll answered FAILURE with an error and no result.
C20_Witness ==
    /\ resp.op = "status" /\ resp.state = "FAILURE"
    /\ result[Job].present
    /\ resp.result = Null /\ resp.count = Null /\ resp.error # Null

\* No two user documents share an email.
UniqueEmails ==
    \A u, v \in UserIds :
        (u # v /\ users[u].present /\ users[v].present) => users[u].email # users[v].email

C22_CancelAborts ==
    [][\A t \in Tasks :
          hit'[t] =>
              /\ meta'[t] # meta[t] => meta'[t].state \notin {"PROGRESS", "SUCCESS"}
              /\ result'[t] # result[t] => ~result'[t].present]_vars


\* C23: when a worker-side release for task t deletes the lock key, the lock
\* it deletes is the one granted to t: it is never a lock another task won
\* after t's worker read the owner key.
C23_ReleaseChecksAtDelete ==
    [][\A t \in Tasks :
          (pc[t] \in {"delS", "delF"} /\ pc'[t] = "done" /\ lockKey # Absent)
             => (granted = t /\ ownerKey.task \in {0, t})]_vars


\* C24: the lock key comes into existence only by the set-if-absent of a
\* start-scrape request; no worker step creates it.
C24_LockCreatedByStartOnly ==
    [][(lockKey = Absent /\ lockKey' # Absent) => inflight' = inflight + 1]_vars


\* C25: a worker that starts task t while the owner key records another task
\* leaves the owner key recording that other task.
C25_WorkerKeepsForeignOwner ==
    [][\A t \in Tasks :
          (pc[t] = "queued" /\ pc'[t] = "run" /\ ownerKey.task \notin {0, t})
             => ownerKey'.task = ownerKey.task]_vars


\* C26: a cancel-scrape request for task t leaves in t's metadata key the
\* REVOKED envelope with error "cancelled by user" and the progress of the
\* envelope stored before the request (0 when there was none or it carried
\* no progress), and leaves the lock key and the owner key absent.
C26_CancelEnvelope ==
    [][\A t \in Tasks :
          (resp'.op = "cancel" /\ resp'.job = t)
             => /\ meta'[t] = [state |-> "REVOKED",
                               progress |-> IF meta[t].progress = Null
                                            THEN Some(0) ELSE meta[t].progress,
                               error |-> Some("cancelled by user")]
                /\ lockKey' = Absent
                /\ ownerKey' = NoOwner]_vars

\* C26 witness: a cancel request has just returned for a task whose envelope
\* keeps the progress 40 the worker had reported, with the lock released.
C26_Witness ==
    /\ resp.op = "cancel"
    /\ meta[resp.job].state = "REVOKED"
    /\ meta[resp.job].progress = Some(40)
    /\ step[resp.job] = 2
    /\ ~cancelTwice[resp.job]
    /\ lockKey = Absent /\ ownerKey = NoOwner

\* C27: a cancel-scrape request that directly follows a cancel-scrape request
\* for the same task changes neither the cancel flag, nor the envelope, nor
\* the lock and owner keys, and both requests answer cancel_requested = true.
C27_CancelIdempotent ==
    [][\A t \in Tasks :
          (/\ resp.op = "cancel" /\ resp.job = t
           /\ resp'.op = "cancel" /\ resp'.job = t)
             => /\ cancelKey' = cancelKey
                /\ meta' = meta
                /\ lockKey' = lockKey /\ ownerKey' = ownerKey
                /\ resp.cancel_requested /\ resp'.cancel_requested]_vars

\* C27 witness: the second of two consecutive cancel requests has returned
\* for a task that had reported progress.
C27_Witness ==
    /\ resp.op = "cancel" /\ resp.job = Job
    /\ cancelTwice[Job]
    /\ cancelKey[Job]
    /\ meta[Job] = RevokedEnv(10)


\* C28: a cancel flag that is set disappears only by the expiry of its own
\* TTL: no step of the worker and no API request deletes it, so every later
\* checkpoint of the task finds it set.
C28_CancelFlagKept ==
    [][\A t \in Tasks :
          (cancelKey[t] /\ ~cancelKey'[t])
             => /\ resp' = NoResp
                /\ workerVars' = workerVars
                /\ inflight' = inflight /\ nextTask' = nextTask /\ sent' = sent
                /\ lockKey' = lockKey /\ ownerKey' = ownerKey]_vars

\* C28 witness: the worker has passed two checkpoints since it first read the
\* cancel flag, a scrape-status poll has just returned, and the flag is set.
C28_Witness ==
    /\ hit[Job] /\ cancelKey[Job]
    /\ cancelRun[Job] /\ step[Job] >= 3
    /\ resp.op = "status" /\ resp.job = Job


\* C29: start-scrape, scrape-status and scrape-lock-status requests leave
\* every metadata key and every result key as they were; a cancel-scrape
\* request changes nothing among them but the metadata key of its task, where
\* it leaves a REVOKED envelope.
C29_ApiWritesOnlyRevoked ==
    [][/\ (\/ resp'.op \in {"start", "status", "lock"}
           \/ inflight' # inflight
           \/ sent' # sent)
            => (meta' = meta /\ result' = result)
       /\ resp'.op = "cancel"
            => /\ result' = result
               /\ \A t \in Tasks \ {resp'.job} : meta'[t] = meta[t]
               /\ meta'[resp'.job].state = "REVOKED"]_vars

\* C29 witness: a scrape-status poll has just reported SUCCESS for a task
\* while the other task's keys hold a REVOKED envelope written by a cancel
\* request; the polled task's envelope and payload are still stored.
C29_Witness ==
    /\ resp.op = "status" /\ resp.state = "SUCCESS"
    /\ meta[resp.job] = SuccessEnv
    /\ result[resp.job] = OkResult
    /\ \E t \in Tasks \ {resp.job} : meta[t].state = "REVOKED" /\ ~result[t].present


\* C30: a progress callback of the job that finds the lock held by the job,
\* and no cancel flag, leaves the lock key and the owner key with the full
\* TTL; and while the job keeps reporting at intervals shorter than the TTL,
\* has not been cancelled and has no terminal envelope, both keys exist and
\* the owner key records the job.
C30_RefreshKeepsLock ==
    /\ [][((step'[Job] # step[Job] \/ spin' # spin) /\ LockHeldBy(Job) /\ ~cancelKey[Job])
             => /\ lockKey' = LockTtlTicks
                /\ ownerKey' = [task |-> Job, ttl |-> LockTtlTicks]]_vars
    /\ []((Reporting /\ ~cancelKey[Job] /\ meta[Job].state \notin TerminalStates)
             => (LockHeldBy(Job) /\ ownerKey.ttl > 0))

\* C30 witness: the job is between its result write and its SUCCESS write,
\* after every report of the spinner and of the job body, time has passed
\* since the last report, and the lock and the owner key are still there.
C30_Witness ==
    /\ pc[Job] = "wmeta" /\ step[Job] = Len(Plan) /\ spin = SpinnerEnd
    /\ ~cancelKey[Job]
    /\ idle = LockTtlTicks - 1
    /\ lockKey = LockTtlTicks - 1
    /\ ownerKey = [task |-> Job, ttl |-> LockTtlTicks - 1]


\* C31: a progress callback of task t that runs while the owner key records
\* another task extends neither the TTL of the lock key nor the TTL of the
\* owner key.
C31_ForeignUpdateNoRefresh ==
    [][\A t \in Tasks :
          (step'[t] # step[t] /\ lockKey # Absent /\ ownerKey.task \notin {0, t})
             => /\ lockKey' <= lockKey
                /\ ownerKey'.ttl <= ownerKey.ttl]_vars


\* C32: when the job body of task t raises, the worker leaves a FAILURE
\* envelope that carries a progress and a non-empty error message; from then
\* on no step writes a SUCCESS envelope for t, and the worker's release deletes
\* the lock only after reading t as the owner.
C32_FailureEnvelope ==
    [][\A t \in Tasks :
          /\ (pc[t] = "run" /\ pc'[t] = "relF")
                => /\ meta'[t].state = "FAILURE"
                   /\ meta'[t].progress # Null
                   /\ meta'[t].error \notin {Null, Some("")}
          /\ (pc[t] \in {"relF", "delF"} /\ meta'[t] # meta[t])
                => meta'[t].state # "SUCCESS"
          /\ (pc[t] = "relF" /\ pc'[t] = "delF") => OwnerIs(t)]_vars


\* C33: after a rate-limit check none of whose commands raised, the caller's
\* counter key, if it exists, has an expiry instant no later than the next
\* UTC midnight, whatever the key was before the check.
C33_CounterExpires ==
    [][(FromGate(resp') /\ GateEnabled /\ resp'.fault \in {"none", "lock"})
          => LET k == rateKey'[resp'.user]
             IN  k.count > 0 => (k.hasExp /\ k.exp <= HalfTicksPerDay)]_vars

\* C33 witness: a check found the counter of an earlier attempt without an
\* expiry and has set one, which has not run out.
C33_Witness ==
    /\ FromGate(resp) /\ resp.fault = "none"
    /\ resp.rateCmds = << "INCR", "TTL", "EXPIRE" >>
    /\ rateKey[resp.user].count >= 2
    /\ rateKey[resp.user].hasExp
    /\ rateKey[resp.user].exp > clock


\* C34: the step that writes a SUCCESS envelope for task t finds t's result
\* payload already written, and in every state whose metadata key records
\* SUCCESS the result key of that task exists.
C34_ResultBeforeSuccess ==
    /\ [][\A t \in Tasks :
             (meta'[t].state = "SUCCESS" /\ meta'[t] # meta[t])
                => (result[t] = OkResult /\ result'[t] = OkResult)]_vars
    /\ [](\A t \in Tasks : meta[t].state = "SUCCESS" => result[t].present)

\* C34 witness: the worker has just written the SUCCESS envelope over the
\* REVOKED one of a cancel request, with the payload in place, and has not
\* released the lock yet.
C34_Witness ==
    /\ pc[Job] = "relS"
    /\ meta[Job] = SuccessEnv
    /\ result[Job] = OkResult
    /\ cancelKey[Job]
    /\ resp = NoResp


\* C35: once the job body has written its post-fetch report of 40, the
\* spinner thread writes no envelope for the job, and no report of the
\* spinner replaces a PROGRESS envelope by one with a lower percentage.
C35_SpinnerStops ==
    [][spin' # spin
          => /\ step[Job] >= 2 => meta'[Job] = meta[Job]
             /\ (meta[Job].state = "PROGRESS" /\ meta'[Job].state = "PROGRESS")
                   => meta'[Job].progress[1] >= meta[Job].progress[1]]_vars

====
